---- MODULE Spec2Model ----
(***************************************************************************)
(* A model of github.com/cgxeiji/servo: the Servo motion state machine     *)
(* (servo.go) driven by the blaster manager loop (blaster.go).             *)
(*                                                                         *)
(* Numbers.  The code computes in float64.  The model uses fixed point:    *)
(* every angle, fraction and pulse is an integer count of 1/Unit, so 180   *)
(* degrees is 180 * Unit and the speed fraction 1.0 is Unit.  Time is      *)
(* counted in clock ticks, TicksPerSecond of them to a second; deltaT is   *)
(* kept as the number of ticks elapsed since it was set (time.Since).      *)
(*                                                                         *)
(* Locks.  s.lock (sync.RWMutex) and s.finished.L (sync.Mutex) are state.  *)
(* A critical section that blocks on nothing is one atomic action guarded  *)
(* by the lock being free; a section that takes a second lock while        *)
(* holding the first (Stop, the deferred function of pwm, Wait) is split   *)
(* at the second acquisition.                                              *)
(***************************************************************************)
EXTENDS Integers, FiniteSets, Sequences, TLC

\* ---------------------------------------------------------------- bounds
\* Fixed-point resolution: the integer that stands for 1.0.
Unit == 1000
\* Clock ticks per second.
TicksPerSecond == 5
\* The longest time, in ticks, the model lets pass between two steps.
MaxElapsed == 3
\* The number of API calls (MoveTo, SetSpeed, SetPosition, Stop, Wait, Close) of a run.
MaxCalls == 3
\* the lines written to the sink that the model follows
MaxLines == 3

\* ------------------------------------------------------------- constants
\* s1 is the servo the callers drive; s2 is a second servo of the package,
\* which is only connected and closed
Servos == {"s1", "s2"}
Driven == {"s1"}
\* s3 is a second servo made with New on the pin of s2
SamePin == {"s2", "s3"}
Made == Servos \cup SamePin
Callers == {"c1", "c2"}
Threads == Callers \cup {"manager"}
None == "none"

\* servo.go:42-45, the bits of flag
Centered == "Centered"
Normalized == "Normalized"
FlagSets == SUBSET {Centered, Normalized}

\* servo.go:108, maxS = 315.7 degrees per second
maxS == (3157 * Unit) \div 10
\* servo.go:115-116
MinPulse == (5 * Unit) \div 100
MaxPulse == (25 * Unit) \div 100
\* servo.go:188, 229: the range of target and position
MinAngle == 0
MaxAngle == 180 * Unit
\* blaster.go:100 and 122: the update ticker's base period, in milliseconds
UpdateMs == 3
\* blaster.go:101: the flush ticker's first period, in milliseconds
FlushMs == 40
\* servo.go:150, 179, 223: the shift of Centered; 153, 176, 220: the factor of Normalized
CenterShift == 90 * Unit
NormFactor == 90

\* The GPIO pin of a servo (servo.go:111), fixed at New.
pin(s) == IF s = "s1" THEN 14 ELSE 15

\* The values callers pass: angles to MoveTo and SetPosition, fractions to SetSpeed.
Angles == {-200 * Unit, Unit \div 2, 200 * Unit}
Fractions == {0, Unit \div 2, 2 * Unit}
\* the targets of the moves made while the package is being closed
Targets == {200 * Unit}

VARIABLES
    \* Servo fields (servo.go:51-84), one per servo
    flags, target, position, deltaT, lastPWM, step, idle,
    \* s.lock: the thread holding it for writing, or None
    lock,
    \* s.finished.L: the thread holding it, or None
    finishedL,
    \* s.finished: the callers parked in Cond.Wait and not yet notified
    notify,
    \* blaster._servos (pin -> servo) and the manager's data (pin -> pwm)
    servos, data,
    \* the manager goroutine: where it is, the servos of the range still to
    \* visit, the servo whose pwm() runs, and pwm()'s locals p and _pwm
    mpc, todo, cur, p, pwmv,
    \* each caller: where it is and the servo its call is on
    pc, on,
    \* history: the last command applied to a servo (with the position it was
    \* applied at and whether the servo was then moving), the servo a caller's
    \* Wait has returned on with no command since, the API calls made so far
    lastCmd, waited, calls,
    \* history: per servo, the sum over the ticks since deltaT was set of the
    \* step in force at each tick
    accrued,
    \* the sink (/dev/pi-blaster): the last line written to it and by whom,
    \* and the number of lines written so far
    sink, written,
    \* the period of the update ticker, in milliseconds
    updateEvery,
    \* the period of the flush ticker, in milliseconds, and b.disabled
    flushEvery, disabled,
    \* b.done and each s.done: closed or not
    done, sdone,
    \* history: whether package Close() has returned, and the pins whose value
    \* was staged in data when it was called and has not been flushed since
    closed, owed

servoVars == <<flags, target, position, deltaT, lastPWM, step, idle>>
syncVars == <<lock, finishedL, notify>>
managerVars == <<servos, data, mpc, todo, cur, p, pwmv>>
callerVars == <<pc, on>>
histVars == <<lastCmd, waited, calls>>
sinkVars == <<sink, written>>
closeVars == <<done, sdone, closed, owed>>
setupVars == <<flushEvery, disabled>>
vars == <<servoVars, syncVars, managerVars, callerVars, histVars, accrued, updateEvery,
          setupVars, sinkVars, closeVars>>

\* ------------------------------------------------------- pure functions
\* A clamp that forgets the upper end.
clampMin(value, min, max) ==
    IF value < min THEN min ELSE value

\* servo.go:302-310
clamp(value, min, max) ==
    LET v1 == IF value < min THEN min ELSE value
    IN  IF v1 > max THEN max ELSE v1

\* servo.go:312-314.  The product is taken before the quotient so that the
\* integer division loses one unit at most.
remap(value, min, max, toMin, toMax) ==
    ((value - min) * (toMax - toMin)) \div (max - min) + toMin

\* servo.go:175-180 and 219-224: from the caller's range to [0, 180]
fromFlags(f, v) ==
    LET a == IF Normalized \in f THEN v * NormFactor ELSE v
    IN  IF Centered \in f THEN a + CenterShift ELSE a

\* A conversion that divides before it shifts.
toFlagsDivideFirst(f, v) ==
    LET a == IF Normalized \in f THEN v \div NormFactor ELSE v
    IN  IF Centered \in f THEN a - CenterShift ELSE a

\* servo.go:148-156: from [0, 180] to the caller's range
toFlags(f, v) ==
    LET a == IF Centered \in f THEN v - CenterShift ELSE v
    IN  IF Normalized \in f THEN a \div NormFactor ELSE a

\* servo.go:144-157, Position(): what it returns once it holds the read lock
Position(s) == toFlags(flags[s], position[s])

\* servo.go:266: time.Since(s.deltaT).Seconds() * s.step
delta(s) == (deltaT[s] * step[s]) \div TicksPerSecond

\* servo.go:267-277: the angle pwm() interpolates
interpolate(s) ==
    IF target[s] < position[s]
    THEN LET q == position[s] - delta(s)
         IN  IF q <= target[s] THEN target[s] ELSE q
    ELSE LET q == position[s] + delta(s)
         IN  IF q >= target[s] THEN target[s] ELSE q

\* blaster.go:121-122: time.Duration(factor) keeps the whole part of
\* log10(n+1)*3 + 1, which is the number of decimal digits of (n+1)^3
RECURSIVE digits(_)
digits(x) == IF x < 10 THEN 1 ELSE 1 + digits(x \div 10)
factor(n) == digits((n + 1) * (n + 1) * (n + 1))
samplePeriod(n) == factor(n) * UpdateMs

\* ----------------------------------------------------------------- Init
NoCmd == [op |-> None, v |-> 0, from |-> 0, moving |-> FALSE]
\* A line of the sink: who wrote it, and either the wildcard "*" (all) or
\* its pin=value tokens, in the order of the text.
NoLine == [by |-> None, all |-> FALSE, tokens |-> <<>>]

\* servo.go:105-126 (New) and blaster.go:37-44 (init).  Flags is the zero
\* flag; deltaT is the zero time: arbitrarily long ago.
Init ==
    /\ flags = [s \in Made |-> {}]
    /\ target = [s \in Made |-> 0]
    /\ position = [s \in Made |-> 0]
    /\ deltaT = [s \in Made |-> MaxElapsed]
    /\ lastPWM = [s \in Made |-> 0]
    /\ step = [s \in Made |-> maxS]
    /\ idle = [s \in Made |-> TRUE]
    /\ lock = [s \in Made |-> None]
    /\ finishedL = [s \in Made |-> None]
    /\ notify = [s \in Made |-> {}]
    /\ servos = <<>>
    /\ data = <<>>
    /\ mpc = "select"
    /\ todo = {}
    /\ cur = None
    /\ p = 0
    /\ pwmv = 0
    /\ pc = [c \in Callers |-> "ready"]
    /\ on = [c \in Callers |-> None]
    /\ lastCmd = [s \in Made |-> NoCmd]
    /\ waited = [c \in Callers |-> None]
    /\ calls = 0
    /\ accrued = [s \in Made |-> MaxElapsed * maxS]
    /\ updateEvery = UpdateMs
    /\ flushEvery = FlushMs
    /\ disabled = FALSE
    /\ sink = NoLine
    /\ written = 0
    /\ done = FALSE
    /\ sdone = [s \in Made |-> FALSE]
    /\ closed = FALSE
    /\ owed = {}

\* ------------------------------------------------------------- the clock
\* Time passes: every deltaT is one tick further in the past.
Tick ==
    /\ \E s \in Made : deltaT[s] < MaxElapsed
    /\ deltaT' = [s \in Made |->
                    IF deltaT[s] < MaxElapsed THEN deltaT[s] + 1 ELSE deltaT[s]]
    /\ accrued' = [s \in Made |->
                     IF deltaT[s] < MaxElapsed THEN accrued[s] + step[s] ELSE accrued[s]]
    /\ UNCHANGED <<flags, target, position, lastPWM, step, idle>>
    /\ UNCHANGED <<syncVars, managerVars, callerVars, histVars, updateEvery, setupVars, sinkVars, closeVars>>

\* ------------------------------------------------------------ API calls
\* servo.go:66: Flags is an exported field the program sets once, before its
\* first call on the servo (README.md:87-89).
Configure(s, f) ==
    /\ calls = 0
    /\ flags[s] = {}
    /\ f # {}
    /\ flags' = [flags EXCEPT ![s] = f]
    /\ UNCHANGED <<target, position, deltaT, lastPWM, step, idle>>
    /\ UNCHANGED <<syncVars, managerVars, callerVars, histVars>>
    /\ UNCHANGED <<updateEvery, setupVars, accrued, sinkVars, closeVars>>

Begin(c) == pc[c] = "ready" /\ calls < MaxCalls

\* A command was applied to s: the record of it, and no Wait on s counts as
\* "returned with nothing since" any more.
Applied(s, op, v) ==
    /\ lastCmd' = [lastCmd EXCEPT ![s] =
                      [op |-> op, v |-> v, from |-> position[s], moving |-> ~idle[s]]]
    /\ waited' = [c \in Callers |-> IF waited[c] = s THEN None ELSE waited[c]]
    /\ calls' = calls + 1

\* A moveTo that stores the value as passed, not clamped.
moveToTargetNoClamp(s, t) ==
    IF step[s] = 0 THEN position[s] ELSE fromFlags(flags[s], t)

\* A moveTo that keeps the target of a servo that is still moving.
moveToTargetWhenIdle(s, t) ==
    IF step[s] = 0 THEN position[s]
    ELSE IF ~idle[s] THEN target[s]
    ELSE clamp(fromFlags(flags[s], t), MinAngle, MaxAngle)

\* servo.go:185-189: the target moveTo stores
moveToTarget(s, t) ==
    IF step[s] = 0 THEN position[s] ELSE clamp(fromFlags(flags[s], t), MinAngle, MaxAngle)

\* A moveTo that leaves the idle flag as it finds it.
moveToIdleKept(s) == idle[s]

\* servo.go:191: the idle flag moveTo stores
moveToIdle(s) == FALSE

\* A moveTo that leaves the step clock running.
MoveToKeepClock(c, s, t) ==
    /\ Begin(c)
    /\ lock[s] = None
    /\ target' = [target EXCEPT ![s] = moveToTarget(s, t)]
    /\ idle' = [idle EXCEPT ![s] = moveToIdle(s)]
    /\ Applied(s, "MoveTo", t)
    /\ UNCHANGED <<flags, position, deltaT, lastPWM, step>>
    /\ UNCHANGED <<syncVars, managerVars, callerVars>>
    /\ UNCHANGED <<updateEvery, setupVars, accrued, sinkVars, closeVars>>

\* servo.go:169-192
MoveTo(c, s, t) ==
    /\ Begin(c)
    /\ lock[s] = None
    /\ target' = [target EXCEPT ![s] = moveToTarget(s, t)]
    /\ deltaT' = [deltaT EXCEPT ![s] = 0]
    /\ idle' = [idle EXCEPT ![s] = moveToIdle(s)]
    /\ Applied(s, "MoveTo", t)
    /\ UNCHANGED <<flags, position, lastPWM, step>>
    /\ UNCHANGED <<syncVars, managerVars, callerVars>>
    /\ accrued' = [accrued EXCEPT ![s] = 0]
    /\ UNCHANGED <<updateEvery, setupVars, sinkVars, closeVars>>

\* servo.go:201: the step SetSpeed stores
speedStep(percentage) == (maxS * clamp(percentage, 0, Unit)) \div Unit

\* servo.go:197-202
SetSpeed(c, s, percentage) ==
    /\ Begin(c)
    /\ lock[s] = None
    /\ step' = [step EXCEPT ![s] = speedStep(percentage)]
    /\ Applied(s, "SetSpeed", percentage)
    /\ UNCHANGED <<flags, target, position, deltaT, lastPWM, idle>>
    /\ UNCHANGED <<syncVars, managerVars, callerVars>>
    /\ UNCHANGED <<updateEvery, setupVars, accrued, sinkVars, closeVars>>

\* servo.go:218-232
SetPosition(c, s, x) ==
    /\ Begin(c)
    /\ lock[s] = None
    /\ position' = [position EXCEPT ![s] = clamp(fromFlags(flags[s], x), MinAngle, MaxAngle)]
    /\ target' = [target EXCEPT ![s] = position'[s]]
    /\ idle' = [idle EXCEPT ![s] = FALSE]
    /\ Applied(s, "SetPosition", x)
    /\ UNCHANGED <<flags, deltaT, lastPWM, step>>
    /\ UNCHANGED <<syncVars, managerVars, callerVars>>
    /\ UNCHANGED <<updateEvery, setupVars, accrued, sinkVars, closeVars>>

\* servo.go:207-211: Stop takes s.lock and writes; it keeps the lock
StopLock(c, s) ==
    /\ Begin(c)
    /\ lock[s] = None
    /\ lock' = [lock EXCEPT ![s] = c]
    /\ target' = [target EXCEPT ![s] = position[s]]
    /\ idle' = [idle EXCEPT ![s] = TRUE]
    /\ pc' = [pc EXCEPT ![c] = "Stop_finished"]
    /\ on' = [on EXCEPT ![c] = s]
    /\ Applied(s, "Stop", 0)
    /\ UNCHANGED <<flags, position, deltaT, lastPWM, step>>
    /\ UNCHANGED <<finishedL, notify, managerVars>>
    /\ UNCHANGED <<updateEvery, setupVars, accrued, sinkVars, closeVars>>

\* servo.go:212-214 and the deferred Unlock of 208: with s.lock held, take
\* finished.L, Broadcast, release both
StopBroadcast(c) ==
    /\ pc[c] = "Stop_finished"
    /\ finishedL[on[c]] = None
    /\ notify' = [notify EXCEPT ![on[c]] = {}]
    /\ lock' = [lock EXCEPT ![on[c]] = None]
    /\ pc' = [pc EXCEPT ![c] = "ready"]
    /\ on' = [on EXCEPT ![c] = None]
    /\ UNCHANGED <<servoVars, finishedL, managerVars, histVars>>
    /\ UNCHANGED <<updateEvery, setupVars, accrued, sinkVars, closeVars>>

\* servo.go:294: Wait takes finished.L
WaitLock(c, s) ==
    /\ Begin(c)
    /\ finishedL[s] = None
    /\ finishedL' = [finishedL EXCEPT ![s] = c]
    /\ pc' = [pc EXCEPT ![c] = "Wait_isIdle"]
    /\ on' = [on EXCEPT ![c] = s]
    /\ calls' = calls + 1
    /\ waited' = [waited EXCEPT ![c] = None]
    /\ UNCHANGED <<servoVars, lock, notify, managerVars, lastCmd>>
    /\ UNCHANGED <<updateEvery, setupVars, accrued, sinkVars, closeVars>>

\* servo.go:297-299 with 285-290: holding finished.L, isIdle() takes the read
\* lock; idle: return (295 releases finished.L); not idle: Cond.Wait parks
\* the caller on the notify list and releases finished.L
WaitIsIdle(c) ==
    /\ pc[c] = "Wait_isIdle"
    /\ lock[on[c]] = None
    /\ finishedL' = [finishedL EXCEPT ![on[c]] = None]
    /\ IF idle[on[c]]
       THEN /\ pc' = [pc EXCEPT ![c] = "ready"]
            /\ on' = [on EXCEPT ![c] = None]
            /\ waited' = [waited EXCEPT ![c] = on[c]]
            /\ UNCHANGED notify
       ELSE /\ pc' = [pc EXCEPT ![c] = "Wait_parked"]
            /\ notify' = [notify EXCEPT ![on[c]] = @ \cup {c}]
            /\ UNCHANGED <<on, waited>>
    /\ UNCHANGED <<servoVars, lock, managerVars, lastCmd, calls>>
    /\ UNCHANGED <<updateEvery, setupVars, accrued, sinkVars, closeVars>>

\* servo.go:298: Cond.Wait returns after a Broadcast, taking finished.L again
WaitWake(c) ==
    /\ pc[c] = "Wait_parked"
    /\ c \notin notify[on[c]]
    /\ finishedL[on[c]] = None
    /\ finishedL' = [finishedL EXCEPT ![on[c]] = c]
    /\ pc' = [pc EXCEPT ![c] = "Wait_isIdle"]
    /\ UNCHANGED <<servoVars, lock, notify, managerVars, on, histVars>>
    /\ UNCHANGED <<updateEvery, setupVars, accrued, sinkVars, closeVars>>

\* blaster.go:115: b._servos[servo.pin] = servo
subscribed(s) == [k \in DOMAIN servos \cup {pin(s)} |-> IF k = pin(s) THEN s ELSE servos[k]]

\* servo.go:129-133 with blaster.go:144-146, 112-115 and 120-122: Connect
\* hands the servo to the manager over the unbuffered channel b.servos; the
\* manager registers it and restarts the update ticker
Connect(c, s) ==
    /\ pc[c] = "ready"
    /\ mpc = "select"
    /\ servos' = subscribed(s)
    /\ updateEvery' = samplePeriod(Cardinality(DOMAIN servos'))
    /\ UNCHANGED <<servoVars, syncVars, data, mpc, todo, cur, p, pwmv, callerVars, histVars>>
    /\ UNCHANGED <<setupVars, accrued, sinkVars, closeVars>>

\* The flush periods the program asks for, in milliseconds.
Rates == {20}

\* A handler that restarts both tickers, the update ticker at its default.
RateRestart(c, d) ==
    /\ Begin(c)
    /\ mpc = "select"
    /\ flushEvery' = d
    /\ calls' = calls + 1
    /\ updateEvery' = UpdateMs
    /\ UNCHANGED <<servoVars, syncVars, managerVars, callerVars, lastCmd, waited>>
    /\ UNCHANGED <<disabled, accrued, sinkVars, closeVars>>

\* blaster.go:155-157 with 130-132: Rate hands the period to the manager
\* over the unbuffered channel b.rate; the manager stops the flush ticker
\* and starts one with the new period
Rate(c, d) ==
    /\ Begin(c)
    /\ mpc = "select"
    /\ flushEvery' = d
    /\ calls' = calls + 1
    /\ UNCHANGED <<servoVars, syncVars, managerVars, callerVars, lastCmd, waited>>
    /\ UNCHANGED <<updateEvery, disabled, accrued, sinkVars, closeVars>>

\* ---------------------------------------------------------- the manager
Stage(k, v) == [j \in DOMAIN data \cup {k} |-> IF j = k THEN v ELSE data[j]]

\* blaster.go:123-124: the update ticker fires; the range starts
ManagerUpdate ==
    /\ mpc = "select"
    /\ mpc' = "range"
    /\ todo' = {servos[k] : k \in DOMAIN servos}
    /\ UNCHANGED <<servoVars, syncVars, servos, data, cur, p, pwmv, callerVars, histVars>>
    /\ UNCHANGED <<updateEvery, setupVars, accrued, sinkVars, closeVars>>

\* blaster.go:124-125: the next servo of the range and its isIdle(), or the
\* end of the range
ManagerRange ==
    /\ mpc = "range"
    /\ IF todo = {}
       THEN /\ mpc' = "select"
            /\ UNCHANGED <<todo, cur>>
       ELSE \E s \in todo :
              /\ lock[s] = None
              /\ todo' = todo \ {s}
              /\ IF idle[s]
                 THEN UNCHANGED <<mpc, cur>>
                 ELSE mpc' = "pwm" /\ cur' = s
    /\ UNCHANGED <<servoVars, syncVars, servos, data, p, pwmv, callerVars, histVars>>
    /\ UNCHANGED <<updateEvery, setupVars, accrued, sinkVars, closeVars>>

\* servo.go:238-241 and 259-281: pwm() under the read lock.  Settled and
\* idle: it returns lastPWM and writes nothing; else it interpolates p.
PwmRead ==
    /\ mpc = "pwm"
    /\ lock[cur] = None
    /\ IF position[cur] = target[cur] /\ idle[cur]
       THEN /\ data' = Stage(pin(cur), lastPWM[cur])
            /\ mpc' = "range"
            /\ cur' = None
            /\ UNCHANGED <<p, pwmv>>
       ELSE /\ p' = interpolate(cur)
            /\ pwmv' = remap(p', MinAngle, MaxAngle, MinPulse, MaxPulse)
            /\ mpc' = "pwm_defer"
            /\ UNCHANGED <<data, cur>>
    /\ UNCHANGED <<servoVars, syncVars, servos, todo, callerVars, histVars>>
    /\ UNCHANGED <<updateEvery, setupVars, accrued, sinkVars, closeVars>>

\* servo.go:243-251 and 256: the deferred function takes s.lock and writes
\* p; at the target it marks the servo idle and keeps the lock, else it
\* releases it and pwm() returns (blaster.go:127 stages the value)
PwmDefer ==
    /\ mpc = "pwm_defer"
    /\ lock[cur] = None
    /\ position' = [position EXCEPT ![cur] = p]
    /\ lastPWM' = [lastPWM EXCEPT ![cur] = pwmv]
    /\ deltaT' = [deltaT EXCEPT ![cur] = 0]
    /\ IF p = target[cur]
       THEN /\ idle' = [idle EXCEPT ![cur] = TRUE]
            /\ lock' = [lock EXCEPT ![cur] = "manager"]
            /\ mpc' = "pwm_finished"
            /\ UNCHANGED <<data, cur, p, pwmv>>
       ELSE /\ data' = Stage(pin(cur), pwmv)
            /\ mpc' = "range"
            /\ cur' = None
            /\ p' = 0
            /\ pwmv' = 0
            /\ UNCHANGED <<idle, lock>>
    /\ UNCHANGED <<flags, target, step, finishedL, notify, servos, todo, callerVars, histVars>>
    /\ accrued' = [accrued EXCEPT ![cur] = 0]
    /\ UNCHANGED <<updateEvery, setupVars, sinkVars, closeVars>>

\* servo.go:252-256: with s.lock held, take finished.L, Broadcast, release
\* both; pwm() returns (blaster.go:127 stages the value)
PwmBroadcast ==
    /\ mpc = "pwm_finished"
    /\ finishedL[cur] = None
    /\ notify' = [notify EXCEPT ![cur] = {}]
    /\ lock' = [lock EXCEPT ![cur] = None]
    /\ data' = Stage(pin(cur), pwmv)
    /\ mpc' = "range"
    /\ cur' = None
    /\ p' = 0
    /\ pwmv' = 0
    /\ UNCHANGED <<servoVars, finishedL, servos, todo, callerVars, histVars>>
    /\ UNCHANGED <<updateEvery, setupVars, accrued, sinkVars, closeVars>>

\* ---------------------------------------------------- the sink and Close
\* blaster.go:191-207, write(): a line is written by a thread that has
\* opened the sink; the model follows a bounded number of lines.
Line(by, all, tokens) == [by |-> by, all |-> all, tokens |-> tokens]
\* blaster.go:192-205: with b.disabled the line goes to ioutil.Discard
output(line) == IF disabled THEN sink ELSE line
Writing(t) ==
    IF t = "manager" THEN mpc = "flush_write"
    ELSE pc[t] \in {"Close_write", "PkgClose_write"}

\* A Close of s is under way.
InClose(s) == \E c \in Callers : pc[c] \in {"Close_done", "Close_write"} /\ on[c] = s

\* A handler that leaves the registry as it is.
unsubscribedNone(s) == servos

\* A handler that deletes the entry only when it holds the servo closed.
unsubscribedSame(s) ==
    IF pin(s) \in DOMAIN servos /\ servos[pin(s)] = s
    THEN [k \in DOMAIN servos \ {pin(s)} |-> servos[k]]
    ELSE servos

\* blaster.go:117: delete(b._servos, servo.pin)
unsubscribed(s) == [k \in DOMAIN servos \ {pin(s)} |-> servos[k]]

\* A handler that stages the last output of the servo.
unsubscribedDataLast(s) == Stage(pin(s), lastPWM[s])

\* blaster.go:118: data[servo.pin] = 0.0
unsubscribedData(s) == Stage(pin(s), 0)

\* servo.go:138 with blaster.go:149-151 and 112-122: Close hands the servo
\* to the manager over b.servos; the manager, at its select, deletes the pin
\* from the registry, stages 0 for it and restarts the update ticker with
\* the period of the new registry.  (The handler touches only what
\* the manager alone reads, so it is taken in one step with the receive.)
\* A servo is closed once.
CloseUnsubscribe(c, s) ==
    /\ Begin(c)
    /\ mpc = "select"
    /\ ~sdone[s]
    /\ ~InClose(s)
    /\ servos' = unsubscribed(s)
    /\ data' = unsubscribedData(s)
    /\ updateEvery' = samplePeriod(Cardinality(DOMAIN servos'))
    /\ pc' = [pc EXCEPT ![c] = "Close_done"]
    /\ on' = [on EXCEPT ![c] = s]
    /\ Applied(s, "Close", 0)
    /\ UNCHANGED <<servoVars, syncVars, mpc, todo, cur, p, pwmv>>
    /\ UNCHANGED <<setupVars, accrued, sinkVars, closeVars>>

\* A close(s.done) that does nothing on a closed channel: Close returns.
CloseNoOp(c) ==
    /\ pc[c] = "Close_done"
    /\ sdone[on[c]]
    /\ pc' = [pc EXCEPT ![c] = "ready"]
    /\ on' = [on EXCEPT ![c] = None]
    /\ UNCHANGED <<servoVars, syncVars, managerVars, histVars>>
    /\ UNCHANGED <<updateEvery, setupVars, accrued, sinkVars, closeVars>>

\* servo.go:139: close(s.done) on the channel an earlier Close has closed
\* panics in the caller's goroutine, which ends the program
ClosePanic(c) ==
    /\ pc[c] = "Close_done"
    /\ sdone[on[c]]
    /\ pc' = [pc EXCEPT ![c] = "panicked"]
    /\ UNCHANGED <<servoVars, syncVars, managerVars, on, histVars>>
    /\ UNCHANGED <<updateEvery, setupVars, accrued, sinkVars, closeVars>>

\* servo.go:139-140: close(s.done), and write() opens the sink
CloseDone(c) ==
    /\ pc[c] = "Close_done"
    /\ ~sdone[on[c]]
    /\ sdone' = [sdone EXCEPT ![on[c]] = TRUE]
    /\ pc' = [pc EXCEPT ![c] = "Close_write"]
    /\ UNCHANGED <<servoVars, syncVars, managerVars, on, histVars>>
    /\ UNCHANGED <<updateEvery, setupVars, accrued, sinkVars, done, closed, owed>>

\* servo.go:140 with blaster.go:205: the line "pin=0.00", and Close returns
CloseWrite(c) ==
    /\ pc[c] = "Close_write"
    /\ written < MaxLines
    /\ sink' = output(Line(c, FALSE, <<<<pin(on[c]), 0>>>>))
    /\ written' = written + 1
    /\ pc' = [pc EXCEPT ![c] = "ready"]
    /\ on' = [on EXCEPT ![c] = None]
    /\ UNCHANGED <<servoVars, syncVars, managerVars, histVars>>
    /\ UNCHANGED <<updateEvery, setupVars, accrued, closeVars>>

\* blaster.go:161-171: package Close() calls close(), whose write() opens
\* the sink.  The package is closed once.
PkgCloseOpen(c) ==
    /\ Begin(c)
    /\ ~done
    /\ \A d \in Callers : pc[d] \notin {"PkgClose_write", "PkgClose_done"}
    /\ pc' = [pc EXCEPT ![c] = "PkgClose_write"]
    /\ calls' = calls + 1
    /\ owed' = DOMAIN data
    /\ UNCHANGED <<servoVars, syncVars, managerVars, on, lastCmd, waited>>
    /\ UNCHANGED <<updateEvery, setupVars, accrued, sinkVars, done, sdone, closed>>

\* blaster.go:171 with 205: the line "*=0.0"
PkgCloseWrite(c) ==
    /\ pc[c] = "PkgClose_write"
    /\ written < MaxLines
    /\ sink' = output(Line(c, TRUE, <<>>))
    /\ written' = written + 1
    /\ pc' = [pc EXCEPT ![c] = "PkgClose_done"]
    /\ UNCHANGED <<servoVars, syncVars, managerVars, on, histVars>>
    /\ UNCHANGED <<updateEvery, setupVars, accrued, closeVars>>

\* blaster.go:172: close(b.done) on the channel an earlier Close() has
\* closed panics in the caller's goroutine, which ends the program
PkgClosePanic(c) ==
    /\ pc[c] = "PkgClose_done"
    /\ done
    /\ pc' = [pc EXCEPT ![c] = "panicked"]
    /\ UNCHANGED <<servoVars, syncVars, managerVars, on, histVars>>
    /\ UNCHANGED <<updateEvery, setupVars, accrued, sinkVars, closeVars>>

\* blaster.go:172: close(b.done)
PkgCloseDone(c) ==
    /\ pc[c] = "PkgClose_done"
    /\ ~done
    /\ done' = TRUE
    /\ pc' = [pc EXCEPT ![c] = "PkgClose_wait"]
    /\ UNCHANGED <<servoVars, syncVars, managerVars, on, histVars>>
    /\ UNCHANGED <<updateEvery, setupVars, accrued, sinkVars, sdone, closed, owed>>

\* blaster.go:173: b.ws.Wait() returns once the manager has exited, and
\* Close() returns
PkgCloseWait(c) ==
    /\ pc[c] = "PkgClose_wait"
    /\ mpc = "exited"
    /\ closed' = TRUE
    /\ pc' = [pc EXCEPT ![c] = "ready"]
    /\ UNCHANGED <<servoVars, syncVars, managerVars, on, histVars>>
    /\ UNCHANGED <<updateEvery, setupVars, accrued, sinkVars, done, sdone, owed>>

\* blaster.go:110-111: the select takes the closed done channel; the
\* goroutine returns
ManagerDone ==
    /\ mpc = "select"
    /\ done
    /\ mpc' = "exited"
    /\ UNCHANGED <<servoVars, syncVars, servos, data, todo, cur, p, pwmv, callerVars, histVars>>
    /\ UNCHANGED <<updateEvery, setupVars, accrued, sinkVars, closeVars>>

\* blaster.go:133: the flush ticker fires
ManagerFlushTick ==
    /\ mpc = "select"
    /\ mpc' = "flush"
    /\ UNCHANGED <<servoVars, syncVars, servos, data, todo, cur, p, pwmv, callerVars, histVars>>
    /\ UNCHANGED <<updateEvery, setupVars, accrued, sinkVars, closeVars>>

\* blaster.go:134-135 with 176-187 and 191-201: nothing staged: back to the
\* select; else flush() builds the line and write() opens the sink
ManagerFlush ==
    /\ mpc = "flush"
    /\ mpc' = IF data = <<>> THEN "select" ELSE "flush_write"
    /\ UNCHANGED <<servoVars, syncVars, servos, data, todo, cur, p, pwmv, callerVars, histVars>>
    /\ UNCHANGED <<updateEvery, setupVars, accrued, sinkVars, closeVars>>

\* blaster.go:179-181: the tokens of a map, in any order of its range loop
RECURSIVE orders(_)
orders(d) ==
    IF DOMAIN d = {} THEN {<<>>}
    ELSE UNION {{<<<<k, d[k]>>>> \o q : q \in orders([j \in DOMAIN d \ {k} |-> d[j]])} :
                    k \in DOMAIN d}

\* Lines that carry every token twice.
flushLinesTwice == {Line("manager", FALSE, t \o t) : t \in orders(data)}

\* Lines with the token of one pin only.
flushLinesOne == {Line("manager", FALSE, <<<<k, data[k]>>>>) : k \in DOMAIN data}

\* The lines flush() can build: a token for every staged pin.
flushLines == {Line("manager", FALSE, t) : t \in orders(data)}

\* blaster.go:205 and 136: the line is written; data is a new, empty map
ManagerFlushWrite ==
    /\ mpc = "flush_write"
    /\ written < MaxLines
    /\ \E l \in flushLines : sink' = output(l)
    /\ written' = written + 1
    /\ data' = <<>>
    /\ owed' = {}
    /\ mpc' = "select"
    /\ UNCHANGED <<servoVars, syncVars, servos, todo, cur, p, pwmv, callerVars, histVars>>
    /\ UNCHANGED <<updateEvery, setupVars, accrued, done, sdone, closed>>

\* blaster.go:195-202: the sink is enabled and os.OpenFile fails: write()
\* panics in the manager's goroutine, which ends the program; data is as it
\* was
ManagerFlushOpenFails ==
    /\ mpc = "flush_write"
    /\ ~disabled
    /\ mpc' = "panicked"
    /\ UNCHANGED <<servoVars, syncVars, servos, data, todo, cur, p, pwmv, callerVars, histVars>>
    /\ UNCHANGED <<updateEvery, setupVars, accrued, sinkVars, closeVars>>

\* blaster.go:205 and 136: the sink is open and fmt.Fprintf fails: nothing
\* reaches the sink, the error it returns is dropped, write() and flush()
\* return, and data is a new, empty map
ManagerFlushWriteFails ==
    /\ mpc = "flush_write"
    /\ ~disabled
    /\ data' = <<>>
    /\ owed' = {}
    /\ mpc' = "select"
    /\ UNCHANGED <<servoVars, syncVars, servos, todo, cur, p, pwmv, callerVars, histVars>>
    /\ UNCHANGED <<updateEvery, setupVars, accrued, sinkVars, done, sdone, closed>>

\* The hand-over of an event in two steps: the caller reaches the send on
\* the unbuffered channel, and the manager, at its select, receives it and
\* runs the handler, which lets the send return.
\* servo.go:129-130 with blaster.go:144-146: Connect reaches b.servos <- ...
ConnectSend(c, s) ==
    /\ pc[c] = "ready"
    /\ pc' = [pc EXCEPT ![c] = "Connect_send"]
    /\ on' = [on EXCEPT ![c] = s]
    /\ UNCHANGED <<servoVars, syncVars, managerVars, histVars>>
    /\ UNCHANGED <<updateEvery, setupVars, accrued, sinkVars, closeVars>>

\* A send that returns with no receiver, as on a buffered channel.
ConnectBuffered(c) ==
    /\ pc[c] = "Connect_send"
    /\ pc' = [pc EXCEPT ![c] = "ready"]
    /\ on' = [on EXCEPT ![c] = None]
    /\ UNCHANGED <<servoVars, syncVars, managerVars, histVars>>
    /\ UNCHANGED <<updateEvery, setupVars, accrued, sinkVars, closeVars>>

\* blaster.go:112-115 and 120-122: the manager receives the servo and
\* registers it; Connect returns
ConnectRecv(c) ==
    /\ pc[c] = "Connect_send"
    /\ mpc = "select"
    /\ servos' = subscribed(on[c])
    /\ updateEvery' = samplePeriod(Cardinality(DOMAIN servos'))
    /\ pc' = [pc EXCEPT ![c] = "ready"]
    /\ on' = [on EXCEPT ![c] = None]
    /\ UNCHANGED <<servoVars, syncVars, data, mpc, todo, cur, p, pwmv, histVars>>
    /\ UNCHANGED <<setupVars, accrued, sinkVars, closeVars>>

\* servo.go:138 with blaster.go:149-151: Close reaches b.servos <- ...
CloseSend(c, s) ==
    /\ Begin(c)
    /\ ~sdone[s]
    /\ ~InClose(s)
    /\ \A d \in Callers : ~(pc[d] = "Close_send" /\ on[d] = s)
    /\ pc' = [pc EXCEPT ![c] = "Close_send"]
    /\ on' = [on EXCEPT ![c] = s]
    /\ UNCHANGED <<servoVars, syncVars, managerVars, histVars>>
    /\ UNCHANGED <<updateEvery, setupVars, accrued, sinkVars, closeVars>>

\* blaster.go:112-122: the manager receives the servo, deletes its pin and
\* stages 0 for it; unsubscribe returns
CloseRecv(c) ==
    /\ pc[c] = "Close_send"
    /\ mpc = "select"
    /\ servos' = unsubscribed(on[c])
    /\ data' = unsubscribedData(on[c])
    /\ updateEvery' = samplePeriod(Cardinality(DOMAIN servos'))
    /\ pc' = [pc EXCEPT ![c] = "Close_done"]
    /\ Applied(on[c], "Close", 0)
    /\ UNCHANGED <<servoVars, syncVars, mpc, todo, cur, p, pwmv, on>>
    /\ UNCHANGED <<setupVars, accrued, sinkVars, closeVars>>

\* servo.go:138: a further Close of a servo whose Close has closed s.done
\* reaches b.servos <- ...
CloseAgainSend(c, s) ==
    /\ Begin(c)
    /\ sdone[s]
    /\ pc' = [pc EXCEPT ![c] = "Close_send"]
    /\ on' = [on EXCEPT ![c] = s]
    /\ UNCHANGED <<servoVars, syncVars, managerVars, histVars>>
    /\ UNCHANGED <<updateEvery, setupVars, accrued, sinkVars, closeVars>>

\* blaster.go:161-171: a further package Close() after close(b.done) calls
\* close(), whose write() opens the sink
PkgCloseAgain(c) ==
    /\ Begin(c)
    /\ done
    /\ pc' = [pc EXCEPT ![c] = "PkgClose_write"]
    /\ calls' = calls + 1
    /\ UNCHANGED <<servoVars, syncVars, managerVars, on, lastCmd, waited>>
    /\ UNCHANGED <<updateEvery, setupVars, accrued, sinkVars, closeVars>>

\* blaster.go:155-157: Rate reaches _blaster.rate <- r
RateSend(c, d) ==
    /\ Begin(c)
    /\ pc' = [pc EXCEPT ![c] = "Rate_send"]
    /\ on' = [on EXCEPT ![c] = d]
    /\ UNCHANGED <<servoVars, syncVars, managerVars, histVars>>
    /\ UNCHANGED <<updateEvery, setupVars, accrued, sinkVars, closeVars>>

\* blaster.go:130-132: the manager receives the period and restarts the
\* flush ticker; Rate returns
RateRecv(c) ==
    /\ pc[c] = "Rate_send"
    /\ mpc = "select"
    /\ flushEvery' = on[c]
    /\ calls' = calls + 1
    /\ pc' = [pc EXCEPT ![c] = "ready"]
    /\ on' = [on EXCEPT ![c] = None]
    /\ UNCHANGED <<servoVars, syncVars, managerVars, lastCmd, waited>>
    /\ UNCHANGED <<updateEvery, disabled, accrued, sinkVars, closeVars>>

\* ------------------------------------------------------------ the system
Manager == ManagerUpdate \/ ManagerRange \/ PwmRead \/ PwmDefer \/ PwmBroadcast

Resume(c) == StopBroadcast(c) \/ WaitIsIdle(c) \/ WaitWake(c)

Call(c) ==
    \E s \in Driven :
        \/ Connect(c, s)
        \/ \E t \in Angles : MoveTo(c, s, t)
        \/ \E f \in Fractions : SetSpeed(c, s, f)
        \/ \E x \in Angles : SetPosition(c, s, x)
        \/ StopLock(c, s)
        \/ WaitLock(c, s)

Next ==
    \/ Tick
    \/ Manager
    \/ \E c \in Callers : Call(c) \/ Resume(c)

\* Two callers on a servo with the default flags.
Spec == Init /\ [][Next]_vars

\* One caller, making its calls one after the other, on a servo with any
\* flags.
SeqNext ==
    \/ Tick
    \/ Manager
    \/ \E s \in Driven : \E f \in FlagSets : Configure(s, f)
    \/ Call("c1") \/ Resume("c1")

SeqSpec == Init /\ [][SeqNext]_vars

\* A servo that is never connected, so never sampled: one caller sets its
\* position, to values in and out of the range of every combination of flags.
RoundTripAngles ==
    {-200 * Unit, -90 * Unit, -45 * Unit, -Unit, -(Unit \div 2), 0, Unit \div 3,
     Unit \div 2, Unit, 2 * Unit, 45 * Unit, 90 * Unit, 180 * Unit, 200 * Unit}

PositionNext ==
    \/ \E s \in Driven : \E f \in FlagSets : Configure(s, f)
    \/ \E s \in Driven : \E x \in RoundTripAngles : SetPosition("c1", s, x)

PositionSpec == Init /\ [][PositionNext]_vars

\* The whole package: the manager samples, flushes and exits.  A worker
\* goroutine (c1) connects the servo once, moves it, waits for it and closes
\* the servos; the main goroutine (c2) closes the servo and the package.
Flusher == ManagerFlushTick \/ ManagerFlush \/ ManagerFlushWrite \/ ManagerDone

Closing(c) ==
    \/ CloseDone(c) \/ CloseWrite(c)
    \/ PkgCloseWrite(c) \/ PkgCloseDone(c) \/ PkgCloseWait(c)

BlasterCall(c) ==
    \/ \E s \in Servos : CloseUnsubscribe(c, s)
    \/ \E s \in Driven :
        \/ pin(s) \notin DOMAIN servos /\ ~sdone[s] /\ ~InClose(s) /\ Connect(c, s)
        \/ \E t \in Targets : MoveTo(c, s, t)
        \/ WaitLock(c, s)

BlasterNext ==
    \/ Tick
    \/ Manager
    \/ Flusher
    \/ BlasterCall("c1")
    \/ PkgCloseOpen("c2") \/ \E s \in Driven : CloseUnsubscribe("c2", s)
    \/ \E c \in Callers : WaitIsIdle(c) \/ WaitWake(c) \/ Closing(c)

BlasterSpec == Init /\ [][BlasterNext]_vars

\* Two servos on distinct pins: one goroutine connects each, moves it once
\* when it is connected, and sets the flush rate; the manager samples and
\* flushes.
PairNext ==
    \/ Tick
    \/ Manager
    \/ ManagerFlushTick \/ ManagerFlush \/ ManagerFlushWrite
    \/ \E s \in Servos :
        \/ pin(s) \notin DOMAIN servos /\ Connect("c1", s)
        \/ \E t \in Targets : pin(s) \in DOMAIN servos /\ lastCmd[s] = NoCmd /\ MoveTo("c1", s, t)
    \/ \E d \in Rates : Rate("c1", d)

PairSpec == Init /\ [][PairNext]_vars

\* Two registered servos: one goroutine connects them and moves s2 once; two
\* goroutines call MoveTo, Stop and Wait on s1.
IsolationNext ==
    \/ Tick
    \/ Manager
    \/ \E s \in Servos : pin(s) \notin DOMAIN servos /\ Connect("c1", s)
    \/ \E t \in Targets :
         pin("s2") \in DOMAIN servos /\ lastCmd["s2"] = NoCmd /\ MoveTo("c1", "s2", t)
    \/ \E c \in Callers :
        \/ \E t \in Targets : MoveTo(c, "s1", t)
        \/ StopLock(c, "s1")
        \/ WaitLock(c, "s1")
        \/ Resume(c)

IsolationSpec == Init /\ [][IsolationNext]_vars

\* A sink that can fail: one goroutine connects and moves a servo, the
\* manager samples and flushes, and a flush can fail to open the sink or to
\* write to it.  A panic ends every goroutine.
Running == mpc # "panicked"

FaultNext ==
    \/ Running /\ Tick
    \/ Manager
    \/ ManagerFlushTick \/ ManagerFlush \/ ManagerFlushWrite
    \/ ManagerFlushOpenFails \/ ManagerFlushWriteFails
    \/ \E s \in Driven :
        \/ Running /\ pin(s) \notin DOMAIN servos /\ Connect("c1", s)
        \/ \E t \in Targets : Running /\ MoveTo("c1", s, t)

FaultSpec == Init /\ [][FaultNext]_vars

\* The hand-over of events: a worker goroutine (c1) connects and closes the
\* servos and sets the flush rate, each call in two steps; the main
\* goroutine (c2) closes the package; the manager flushes and exits.
HandOffNext ==
    \/ Flusher
    \/ \E s \in Servos :
         pin(s) \notin DOMAIN servos /\ ~sdone[s] /\ ~InClose(s) /\ ConnectSend("c1", s)
    \/ ConnectRecv("c1")
    \/ \E s \in Servos : CloseSend("c1", s)
    \/ CloseRecv("c1")
    \/ \E d \in Rates : RateSend("c1", d)
    \/ RateRecv("c1")
    \/ PkgCloseOpen("c2")
    \/ \E c \in Callers : Closing(c)

HandOffSpec == Init /\ [][HandOffNext]_vars

\* Two servos on one pin: a goroutine connects each (a servo that is not the
\* one registered), moves each once and closes them; the manager samples.
SamePinNext ==
    \/ Tick
    \/ Manager
    \/ \E s \in SamePin :
        \/ /\ IF pin(s) \in DOMAIN servos THEN servos[pin(s)] # s ELSE TRUE
           /\ ~sdone[s] /\ ~InClose(s)
           /\ Connect("c1", s)
        \/ \E t \in Targets : lastCmd[s] = NoCmd /\ MoveTo("c1", s, t)
        \/ CloseUnsubscribe("c1", s)
    \/ CloseDone("c1") \/ CloseWrite("c1")

SamePinSpec == Init /\ [][SamePinNext]_vars

\* A goroutine connects the servo and keeps calling MoveTo; the manager
\* samples.
RetargetNext ==
    \/ Tick
    \/ Manager
    \/ \E s \in Driven :
        \/ pin(s) \notin DOMAIN servos /\ Connect("c1", s)
        \/ \E t \in Targets : MoveTo("c1", s, t)

RetargetSpec == Init /\ [][RetargetNext]_vars

\* Closing twice: a worker goroutine (c1) closes the servos and closes them
\* again, the main goroutine (c2) closes the package and closes it again;
\* the manager flushes and exits.  A panic ends every goroutine.
Alive == \A c \in Callers : pc[c] # "panicked"

TwiceNext ==
    \/ Alive /\ ManagerFlushTick
    \/ Alive /\ ManagerFlush
    \/ Alive /\ ManagerFlushWrite
    \/ Alive /\ ManagerDone
    \/ \E s \in Servos : Alive /\ CloseUnsubscribe("c1", s)
    \/ \E s \in Servos : Alive /\ CloseAgainSend("c1", s)
    \/ Alive /\ CloseRecv("c1")
    \/ Alive /\ CloseDone("c1")
    \/ Alive /\ CloseWrite("c1")
    \/ Alive /\ ClosePanic("c1")
    \/ Alive /\ PkgCloseOpen("c2")
    \/ Alive /\ PkgCloseAgain("c2")
    \/ Alive /\ PkgCloseWrite("c2")
    \/ Alive /\ PkgCloseDone("c2")
    \/ Alive /\ PkgCloseWait("c2")
    \/ Alive /\ PkgClosePanic("c2")

TwiceSpec == Init /\ [][TwiceNext]_vars

\* The Go scheduler runs every runnable goroutine: the manager loop (its
\* tickers keep firing) and every call that is under way take their next step
\* when it stays possible, and time passes.  Nothing makes a caller start
\* another call.
Fairness ==
    /\ WF_vars(Tick)
    /\ WF_vars(Manager)
    /\ \A c \in Callers : WF_vars(Resume(c))

FairSpec == Spec /\ Fairness

\* ----------------------------------------------------------------- claims
InWait(c) == pc[c] \in {"Wait_isIdle", "Wait_parked"}
InStop(s) == \E c \in Callers : pc[c] = "Stop_finished" /\ on[c] = s
Connected(s) == pin(s) \in DOMAIN servos /\ servos[pin(s)] = s
\* servo.go:40-45: the caller's range under each combination of flags
rangeMin(f) ==
    IF Centered \in f THEN (IF Normalized \in f THEN -Unit ELSE -90 * Unit) ELSE 0
rangeMax(f) ==
    IF Centered \in f
    THEN (IF Normalized \in f THEN Unit ELSE 90 * Unit)
    ELSE (IF Normalized \in f THEN 2 * Unit ELSE 180 * Unit)

\* C1: no reachable state has a Wait() caller holding finished.L and blocked
\* on s.lock while the holder of s.lock (Stop(), or the deferred function of
\* pwm()) is blocked on finished.L.
C1_NoLockCycle ==
    \A s \in Servos : \A c \in Callers :
        ~(/\ pc[c] = "Wait_isIdle" /\ on[c] = s /\ finishedL[s] = c
          /\ lock[s] # None
          /\ \/ lock[s] \in Callers /\ pc[lock[s]] = "Stop_finished"
             \/ lock[s] = "manager" /\ mpc = "pwm_finished")

\* C2: a caller that is in Wait() while the servo is idle eventually returns,
\* unless the servo is made not idle again (a further MoveTo or SetPosition).
C2_WaitReturns ==
    \A c \in Callers :
        (InWait(c) /\ idle[on[c]]) ~> (pc[c] = "ready" \/ (InWait(c) /\ ~idle[on[c]]))


\* The last command applied to s is op, and (for Stop) the call has returned.
Last(s, op) == lastCmd[s].op = op /\ ~InStop(s)
\* A caller's Wait() on s has returned and no command was applied to s since.
WaitReturned(s) == \E c \in Callers : waited[c] = s

\* C3: after MoveTo(t) at a speed above 0 and a returned Wait(), Position()
\* is t clamped to the caller's range under the servo's flags.
C3_MoveToWaitPosition ==
    \A s \in Servos :
        (Last(s, "MoveTo") /\ step[s] > 0 /\ WaitReturned(s))
            => Position(s) = clamp(lastCmd[s].v, rangeMin(flags[s]), rangeMax(flags[s]))

\* C3 witness: a connected servo with Centered set was sent beyond its range,
\* Wait() returned, and the servo stands at the end of the range.
C3_Witness ==
    \E s \in Servos :
        /\ Connected(s) /\ Last(s, "MoveTo") /\ step[s] > 0 /\ WaitReturned(s)
        /\ flags[s] = {Centered, Normalized} /\ lastCmd[s].v > rangeMax(flags[s])
        /\ position[s] = MaxAngle

\* C4: when a MoveTo is applied to a servo that has not settled and a Wait()
\* returns after it, the servo is idle at that MoveTo's target, not the
\* earlier one.
C4_RetargetWait ==
    \A s \in Servos :
        (Last(s, "MoveTo") /\ lastCmd[s].moving /\ step[s] > 0 /\ WaitReturned(s))
            => /\ idle[s]
               /\ target[s] = clamp(fromFlags(flags[s], lastCmd[s].v), MinAngle, MaxAngle)
               /\ position[s] = target[s]

\* C4 witness: the servo was on its way up (retargeted away from 0) when it
\* was sent back to 0; Wait() returned with the servo at 0.
C4_Witness ==
    \E s \in Servos :
        /\ Last(s, "MoveTo") /\ lastCmd[s].moving /\ step[s] > 0 /\ WaitReturned(s)
        /\ lastCmd[s].from > 0
        /\ position[s] = 0

\* C5: after Stop() has returned and until the next command, the servo is
\* idle, target = position, and the position is the one Stop() found.
C5_StopHolds ==
    \A s \in Servos :
        Last(s, "Stop")
            => idle[s] /\ target[s] = position[s] /\ position[s] = lastCmd[s].from

\* C6: the idle flag is true if and only if position = target.
C6_IdleIffSettled ==
    \A s \in Servos : idle[s] <=> (position[s] = target[s])

\* C7 as claimed: after MoveTo calls, target is the clamped value of the call
\* that took the lock last.
C7_LastWriterWins ==
    \A s \in Servos :
        Last(s, "MoveTo")
            => target[s] = clamp(fromFlags(flags[s], lastCmd[s].v), MinAngle, MaxAngle)

\* C7 as amended: after MoveTo calls, target is the clamped value of the call
\* that took the lock last when the speed is above 0, and the position that
\* call found when the speed is 0.
C7_LastWriterWinsAtSpeed ==
    \A s \in Servos :
        Last(s, "MoveTo")
            => target[s] = IF step[s] = 0
                           THEN lastCmd[s].from
                           ELSE clamp(fromFlags(flags[s], lastCmd[s].v), MinAngle, MaxAngle)

\* C7 witness: both callers have made MoveTo calls (all API calls of the run
\* are spent, none is under way), the last one applied while the servo was
\* still moving, and target is that call's value.
C7_Witness ==
    \E s \in Servos :
        /\ Last(s, "MoveTo") /\ lastCmd[s].moving /\ step[s] > 0
        /\ calls = MaxCalls /\ \A c \in Callers : pc[c] = "ready"
        /\ target[s] = Unit \div 2

\* C8: position and target are within [0, 180] and the step within [0, maxStep].
C8_InRange ==
    \A s \in Servos :
        /\ MinAngle <= position[s] /\ position[s] <= MaxAngle
        /\ MinAngle <= target[s] /\ target[s] <= MaxAngle
        /\ 0 <= step[s] /\ step[s] <= maxS

\* C8 witness: the servo is on its way to 180, the clamp of an angle above
\* the range (no angle passed is 180 itself), stepped once or more, at the
\* full step, the clamp of the fraction above 1 passed last.
C8_Witness ==
    \E s \in Servos :
        /\ Last(s, "SetSpeed") /\ lastCmd[s].v > Unit /\ step[s] = maxS
        /\ target[s] = MaxAngle
        /\ lastPWM[s] > MinPulse
        /\ position[s] > Unit /\ position[s] < MaxAngle

\* C9: after MoveTo at speed 0 and until the next command, the position is
\* the one MoveTo found and target equals it.
C9_ZeroSpeedMoveTo ==
    \A s \in Servos :
        (Last(s, "MoveTo") /\ step[s] = 0)
            => position[s] = lastCmd[s].from /\ target[s] = position[s]

\* C10: after SetSpeed(0) on a moving servo and until the next command, the
\* position is the one SetSpeed found and target equals it.
C10_ZeroSpeedStops ==
    \A s \in Servos :
        (Last(s, "SetSpeed") /\ lastCmd[s].moving /\ step[s] = 0)
            => position[s] = lastCmd[s].from /\ target[s] = position[s]

\* Caller c's step is the start of a Stop on s.
StopStep(c, s) == pc[c] = "ready" /\ pc'[c] = "Stop_finished" /\ on'[c] = s

\* C11: a Stop on a servo that is already idle changes nothing: the position
\* and the target are as before the call and the servo is still idle.
C11_StopIdleNoOp ==
    [][\A c \in Callers : \A s \in Servos :
          (StopStep(c, s) /\ idle[s]) =>
              /\ position'[s] = position[s]
              /\ target'[s] = target[s]
              /\ idle'[s]]_vars

\* C12: after SetPosition(x), and until another command, Position() is x
\* clamped to the range of the flags and the target is that position, also
\* when the servo was moving at the call.
C12_SetPositionHolds ==
    \A s \in Servos :
        Last(s, "SetPosition") =>
            /\ Position(s) = clamp(lastCmd[s].v, rangeMin(flags[s]), rangeMax(flags[s]))
            /\ target[s] = position[s]

\* The step of a SetSpeed call on s, and the manager's step in which pwm()
\* computes the next angle of s.
SetSpeedStep(s) == calls' = calls + 1 /\ pc' = pc /\ lastCmd'[s].op = "SetSpeed"
SampleStep(s) == mpc = "pwm" /\ mpc' = "pwm_defer" /\ cur = s
\* From an angle towards another by d at most.
advance(from, to, d) ==
    IF to < from
    THEN (IF from - d <= to THEN to ELSE from - d)
    ELSE (IF from + d >= to THEN to ELSE from + d)
\* C13: SetSpeed leaves position, target and idle as they are, and
\* the next sample moves the servo by the time before the call at the old
\* rate plus the time after it at the new rate.
C13_NotRetroactive ==
    [][\A s \in Servos :
          /\ SetSpeedStep(s) =>
                (position'[s] = position[s] /\ target'[s] = target[s] /\ idle'[s] = idle[s])
          /\ SampleStep(s) =>
                p' = advance(position[s], target[s], accrued[s] \div TicksPerSecond)]_vars

pinsOf(line) == {line.tokens[i][1] : i \in DOMAIN line.tokens}

\* The last command on s is a Close that has returned; caller c's step is
\* the return of its Close of s.
Closed(s) == lastCmd[s].op = "Close" /\ ~InClose(s)
CloseReturnStep(c, s) == pc[c] = "Close_write" /\ on[c] = s /\ pc'[c] = "ready"

C16_CloseCancels ==
    \A s \in Servos :
        (Closed(s) /\ lastCmd[s].moving) =>
            /\ idle[s]
            /\ target[s] = position[s]
            /\ \A c \in Callers : ~(InWait(c) /\ on[c] = s)

\* C17: package Close() returns only once the manager has exited, and no
\* line is written to the sink after it has returned.
C17_NoWriteAfterClose ==
    /\ [](closed => mpc = "exited")
    /\ [][closed => (written' = written /\ sink' = sink)]_vars

\* C18: when package Close() has returned, every value that was staged when
\* it was called has been written in a flush line.
C18_CloseDrains == closed => owed = {}

\* C19: every line of the sink is written by the manager, and two threads
\* are never writing at once.
C19_SingleWriter ==
    /\ sink.by \in {None, "manager"}
    /\ \A t1 \in Threads : \A t2 \in Threads : (Writing(t1) /\ Writing(t2)) => t1 = t2

Unsubscribed(s) == sdone[s] \/ InClose(s)
UnsubscribeStep(s) == ~Unsubscribed(s) /\ Unsubscribed(s)'
FlushWriteStep == mpc = "flush_write" /\ mpc' = "select"

\* C21: the unsubscribe of a servo stages 0 for its pin; the value staged
\* for the pin stays 0 until a flush line carries it, that line carries
\* pin=0, and once the pin is no longer staged it is never staged again.
C21_NeutralOnce ==
    /\ [][\A s \in Servos :
            UnsubscribeStep(s) => (pin(s) \in DOMAIN data' /\ data'[pin(s)] = 0)]_vars
    /\ [](\A s \in Servos :
            (Unsubscribed(s) /\ pin(s) \in DOMAIN data) => data[pin(s)] = 0)
    /\ [][\A s \in Servos :
            (Unsubscribed(s) /\ FlushWriteStep /\ pin(s) \in DOMAIN data) =>
                \E i \in DOMAIN sink'.tokens : sink'.tokens[i] = <<pin(s), 0>>]_vars
    /\ [][\A s \in Servos :
            (Unsubscribed(s) /\ pin(s) \notin DOMAIN data) => pin(s) \notin DOMAIN data']_vars

\* A servo that was sampled on its way was closed, a flush line has carried
\* 0 for its pin, and nothing is staged for the pin.
C21_Witness ==
    /\ Unsubscribed("s1") /\ ~InClose("s1")
    /\ lastPWM["s1"] > MinPulse
    /\ ~idle["s1"]
    /\ sink.by = "manager"
    /\ \E i \in DOMAIN sink.tokens : sink.tokens[i] = <<pin("s1"), 0>>
    /\ pin("s1") \notin DOMAIN data

\* The value staged for pin k in d, if any; a step of the manager inside
\* pwm() (blaster.go:126, servo.go:237-282) before the broadcast.
staged(d, k) == IF k \in DOMAIN d THEN <<d[k]>> ELSE <<>>
PwmStep == mpc \in {"pwm", "pwm_defer"} /\ mpc' # mpc

\* C22: a sample tick steps and stages only servos that are not idle; it
\* leaves an idle servo's position, target and the value staged for its pin
\* as they were.
C22_SampleOnlyMoving ==
    [][\A s \in Servos :
         (PwmStep /\ idle[s]) =>
             /\ position'[s] = position[s]
             /\ target'[s] = target[s]
             /\ staged(data', pin(s)) = staged(data, pin(s))]_vars

\* C23: a flush line has at most one token for a pin, and the token carries
\* the value staged for the pin when the line is written.
C23_OneTokenPerPin ==
    /\ [](sink.by = "manager" =>
            \A i, j \in DOMAIN sink.tokens :
                sink.tokens[i][1] = sink.tokens[j][1] => i = j)
    /\ [][FlushWriteStep =>
            /\ pinsOf(sink') = DOMAIN data
            /\ \A i \in DOMAIN sink'.tokens :
                 sink'.tokens[i][2] = data[sink'.tokens[i][1]]]_vars

\* Both servos were moving when a line with a token for each was written.
C23_Witness ==
    /\ sink.by = "manager"
    /\ pinsOf(sink) = {pin(s) : s \in Servos}
    /\ \A i \in DOMAIN sink.tokens : sink.tokens[i][2] > MinPulse
    /\ \A s \in Servos : Connected(s) /\ ~idle[s] /\ position[s] > 0

\* C25: a step that changes the flush period sets it to the period asked
\* for and changes neither the registry, the staged values, the sampling
\* period nor any servo's position, target or idle flag.
C25_RateOnlyFlushPeriod ==
    [][flushEvery' # flushEvery =>
         /\ flushEvery' \in Rates
         /\ UNCHANGED <<servos, data, updateEvery, position, target, idle>>]_vars

\* The flush period was replaced; both servos are registered and moving and
\* values are staged for them.
C25_Witness ==
    /\ flushEvery \in Rates /\ flushEvery # FlushMs
    /\ updateEvery = samplePeriod(Cardinality(Servos))
    /\ \A s \in Servos : Connected(s) /\ ~idle[s] /\ position[s] > 0 /\ pin(s) \in DOMAIN data

\* 10 to the power k.
RECURSIVE Pow10(_)
Pow10(k) == IF k <= 0 THEN 1 ELSE 10 * Pow10(k - 1)

\* C24: with n servos registered the sampling period is
\* 3 ms x (1 + 3 * log10(n + 1)): the period over 3 ms, less one, is the
\* logarithm of (n + 1) cubed.
C24_SamplePeriod ==
    LET n == Cardinality(DOMAIN servos)
    IN  /\ updateEvery % UpdateMs = 0
        /\ Pow10((updateEvery \div UpdateMs) - 1) = (n + 1) * (n + 1) * (n + 1)

\* A Wait on s holds finished.L and is blocked on s.lock, whose holder is
\* blocked on finished.L; the manager is in the cycle, or its range has only
\* s left, whose isIdle() needs s.lock.
CycleOn(s) ==
    \E c \in Callers :
        /\ pc[c] = "Wait_isIdle" /\ on[c] = s /\ finishedL[s] = c
        /\ \/ lock[s] \in Callers /\ pc[lock[s]] = "Stop_finished"
           \/ lock[s] = "manager" /\ mpc = "pwm_finished"
ManagerStuckOn(s) ==
    /\ CycleOn(s)
    /\ \/ mpc = "range" /\ todo = {s}
       \/ mpc = "pwm_finished" /\ cur = s

\* C27: calls on one servo change neither the position nor the target of
\* another, and never leave the manager unable to step another registered
\* servo that is still moving.
C27_Isolation ==
    /\ [][\A r \in Servos :
            (mpc' = mpc /\ todo' = todo /\ lastCmd'[r] = lastCmd[r]) =>
                (position'[r] = position[r] /\ target'[r] = target[r])]_vars
    /\ [](\A s, r \in Servos :
            ~(s # r /\ ManagerStuckOn(s) /\ Connected(r) /\ ~idle[r]))

\* C28: the staged values are dropped only by a step that has written the
\* line of these values to the sink; a flush that fails panics and leaves
\* them staged.
C28_NoSilentDrop ==
    [][(data # <<>> /\ data' = <<>>) =>
          (written' = written + 1 /\ sink' \in flushLines)]_vars

\* The deferred function of pwm() writes the position (servo.go:243-246).
PwmWriteStep == mpc = "pwm_defer" /\ mpc' # mpc
\* x lies between a and b, the ends included.
between(x, a, b) == (a <= x /\ x <= b) \/ (b <= x /\ x <= a)

\* C30: the step pwm() writes leaves the position between where it was and
\* the target, never past the target and never further from it, by at most
\* step x the time since the previous step; at the target the servo is idle.
C30_StepTowardTarget ==
    [][PwmWriteStep =>
          /\ between(position'[cur], position[cur], target[cur])
          /\ position'[cur] = target[cur] => idle'[cur]]_vars

\* The distance between two angles.
dist(a, b) == IF a < b THEN b - a ELSE a - b

\* C31: a step changes the position by at most maxStep x the time since the
\* position was last written.  After a SetPosition with no MoveTo since, that
\* time is at most the time on the step clock.
C31_SpeedLimit ==
    [][(PwmWriteStep /\ lastCmd[cur].op = "SetPosition") =>
          dist(position'[cur], position[cur]) * TicksPerSecond <= maxS * deltaT[cur]]_vars

\* A MoveTo on s returns; the last command on s is a MoveTo whose target was
\* the position s had then.
MoveToStep(s) == calls' = calls + 1 /\ pc' = pc /\ lastCmd'[s].op = "MoveTo"
ZeroMove(s) == lastCmd[s].op = "MoveTo" /\ target[s] = lastCmd[s].from

\* C32: MoveTo leaves the servo not idle, also when its target is the
\* position the servo has; after such a MoveTo the position stays as it is
\* and the sample that writes it marks the servo idle.
C32_ZeroMoveSettles ==
    /\ [][\A s \in Driven : MoveToStep(s) => ~idle'[s]]_vars
    /\ [](\A s \in Driven : ZeroMove(s) => position[s] = target[s])
    /\ [][(PwmWriteStep /\ ZeroMove(cur)) => idle'[cur]]_vars

\* s is not sampled: it is not in the registry (never connected, or closed)
\* or the manager loop has ended.
Unsampled(s) == pin(s) \notin DOMAIN servos \/ sdone[s] \/ mpc = "exited"

\* C33: the position of a servo that is not sampled does not change, the
\* servo stays not idle after a MoveTo, and a caller in Wait() on it stays in
\* Wait().
C33_OnlySamplesMove ==
    [][\A s \in Servos :
         Unsampled(s) =>
             /\ position'[s] = position[s]
             /\ ~idle[s] =>
                  /\ ~idle'[s]
                  /\ \A c \in Callers : (InWait(c) /\ on[c] = s) => InWait(c)']_vars

\* A closed servo was told to move to another angle, time has passed, and a
\* caller is parked in Wait() on it.
C33_Witness ==
    /\ sdone["s1"] /\ pin("s1") \notin DOMAIN servos
    /\ lastCmd["s1"].op = "MoveTo" /\ target["s1"] # position["s1"]
    /\ deltaT["s1"] = MaxElapsed
    /\ \E c \in Callers : pc[c] = "Wait_parked" /\ on[c] = "s1"

\* Caller c is at the send of its event.
Sending(c) == pc[c] \in {"Connect_send", "Close_send", "Rate_send"}

\* C34: a Connect, Close or Rate gets past its send only in a step in which
\* the manager, at its select, takes the event, and the handler has then run;
\* once the manager loop has ended a caller at its send stays there.
C34_HandOff ==
    [][\A c \in Callers :
         /\ (Sending(c) /\ ~Sending(c)') =>
               /\ mpc = "select"
               /\ pc[c] = "Connect_send" =>
                    (pin(on[c]) \in DOMAIN servos' /\ servos'[pin(on[c])] = on[c])
               /\ pc[c] = "Close_send" =>
                    (pin(on[c]) \notin DOMAIN servos' /\ data'[pin(on[c])] = 0)
               /\ pc[c] = "Rate_send" => flushEvery' = on[c]
         /\ (Sending(c) /\ mpc = "exited") => Sending(c)']_vars

\* Package Close() has returned and the worker is at the send of a Connect.
C34_Witness ==
    /\ closed /\ mpc = "exited"
    /\ pc["c1"] = "Connect_send"
    /\ pin(on["c1"]) \notin DOMAIN servos

\* C35: the registry has one entry for a pin, the servo connected last on
\* it; a Close of a servo removes the entry of its pin whichever servo the
\* entry holds, and a servo whose pin has no entry is not sampled: its
\* position stays and it stays not idle.
C35_KeyedByPin ==
    /\ [](\A k \in DOMAIN servos : pin(servos[k]) = k)
    /\ [][\A k \in DOMAIN servos :
            (k \in DOMAIN servos' /\ servos'[k] # servos[k]) =>
                (DOMAIN servos' = DOMAIN servos /\ servos' = subscribed(servos'[k]))]_vars
    /\ [][\A s \in Made : UnsubscribeStep(s) => pin(s) \notin DOMAIN servos']_vars
    /\ [][\A r \in Made :
            pin(r) \notin DOMAIN servos =>
                (position'[r] = position[r] /\ (~idle[r] => ~idle'[r]))]_vars

\* s3 was registered on the pin it shares with s2 and was moving; the Close
\* of s2 removed the entry, and s3, not closed, has stopped short of its
\* target.
C35_Witness ==
    /\ sdone["s2"] /\ ~Unsubscribed("s3")
    /\ pin("s3") \notin DOMAIN servos
    /\ position["s3"] > 0 /\ position["s3"] # target["s3"] /\ ~idle["s3"]
    /\ deltaT["s3"] = MaxElapsed

\* Package Close() has written the line "*=0.0".
SentinelWritten == done \/ \E c \in Callers : pc[c] = "PkgClose_done"

\* C36: once package Close() has written "*=0.0" the manager writes no
\* flush line.
C36_SentinelLast == [][SentinelWritten => ~FlushWriteStep]_vars

\* A value the manager may send for a pin: the neutral 0, or a pulse width
\* of the servo's range.
Sendable(v) == v = 0 \/ (MinPulse <= v /\ v <= MaxPulse)

\* C37: every value staged, and every value in a line the manager has
\* written, is 0 or lies within [MinPulse, MaxPulse].
C37_PulseRange ==
    /\ \A k \in DOMAIN data : Sendable(data[k])
    /\ sink.by = "manager" => \A i \in DOMAIN sink.tokens : Sendable(sink.tokens[i][2])

\* A line of the manager with the neutral value for one pin and a pulse
\* width inside the range for another; the servo has its last output staged
\* again.
C37_Witness ==
    /\ sink.by = "manager"
    /\ \E i, j \in DOMAIN sink.tokens :
          /\ sink.tokens[i][2] = 0
          /\ MinPulse < sink.tokens[j][2] /\ sink.tokens[j][2] < MaxPulse
    /\ \E k \in DOMAIN data : data[k] > MinPulse

\* C38: a MoveTo sets the step clock to now, and a sample advances the servo
\* by at most step x the time on the clock, which is the time since the
\* latest MoveTo at most: what had elapsed before the MoveTo is dropped.
C38_MoveToResetsClock ==
    /\ [][\A s \in Driven : MoveToStep(s) => deltaT'[s] = 0]_vars
    /\ [][\A s \in Driven :
            SampleStep(s) => dist(p', position[s]) * TicksPerSecond <= step[s] * deltaT[s]]_vars

\* A servo on its way was told to move again just before a sample: the
\* sample leaves it where it was, short of its target.
C38_Witness ==
    /\ mpc = "pwm_defer" /\ cur = "s1"
    /\ lastCmd["s1"].op = "MoveTo" /\ lastCmd["s1"].moving
    /\ step["s1"] > 0 /\ deltaT["s1"] = 0
    /\ position["s1"] > 0 /\ position["s1"] # target["s1"]
    /\ p = position["s1"]

\* Caller c is in a Close of a servo whose s.done is closed, or in a package
\* Close() after b.done was closed: a second call.
SecondClose(c) == pc[c] \in {"Close_send", "Close_done"} /\ sdone[on[c]]
SecondPkgClose(c) == pc[c] \in {"PkgClose_write", "PkgClose_done"} /\ done
\* The steps of a second call: the manager takes the servo and stages 0 for
\* its pin again, then close(s.done) panics; package Close() writes "*=0.0"
\* again, then close(b.done) panics.
SecondCloseSteps ==
    \A c \in Callers :
        /\ (SecondClose(c) /\ pc[c] = "Close_send" /\ pc'[c] # pc[c]) =>
              /\ mpc = "select"
              /\ pc'[c] = "Close_done"
              /\ pin(on[c]) \in DOMAIN data' /\ data'[pin(on[c])] = 0
        /\ (SecondClose(c) /\ pc[c] = "Close_done" /\ pc'[c] # pc[c]) => pc'[c] = "panicked"
        /\ (SecondPkgClose(c) /\ pc[c] = "PkgClose_write" /\ pc'[c] # pc[c]) =>
              (sink'.all /\ pc'[c] = "PkgClose_done")
        /\ (SecondPkgClose(c) /\ pc[c] = "PkgClose_done" /\ pc'[c] # pc[c]) =>
              pc'[c] = "panicked"

\* C39: a second Servo.Close() stages 0 for the pin again and panics at
\* close(s.done), a second package Close() panics at close(b.done): no second
\* call is left short of its panic.
C39_OneShot ==
    /\ [][SecondCloseSteps]_vars
    /\ [](\A c \in Callers :
            ~(SecondClose(c) /\ pc[c] = "Close_send" /\ mpc = "exited"))

\* C39, amended: while the manager loop runs a second Servo.Close() stages 0
\* again and panics; once the loop has ended it stays at its send.  A second
\* package Close() writes "*=0.0" again and panics.
C39_OneShotWhileRunning ==
    [][/\ SecondCloseSteps
       /\ \A c \in Callers :
            (SecondClose(c) /\ pc[c] = "Close_send" /\ mpc = "exited") => pc'[c] = pc[c]]_vars

\* A second Close of a servo has staged 0 for its pin again and panicked.
C39_Witness ==
    /\ pc["c1"] = "panicked"
    /\ sdone[on["c1"]]
    /\ pin(on["c1"]) \in DOMAIN data /\ data[pin(on["c1"])] = 0
    /\ written > 0
====
